---- MODULE Spec2Model ----
(***************************************************************************)
(* Stream handles (RxSyncStream / TxSyncStream) of the bladeRF binding.    *)
(*                                                                         *)
(* One caller thread per direction drives the handle of that direction.   *)
(* Every call that crosses the driver boundary (set_sync_config,           *)
(* set_enable_module, bladerf_sync_rx/tx) is one step, so the states       *)
(* inside enable, disable, drop and reconfigure are states of the model.   *)
(* The driver's answer to each call is an input of the step.               *)
(*                                                                         *)
(* Pin handles (XbGpioPin) of the expansion port are the second part:      *)
(* into_input, into_output, read and write make one driver call each and   *)
(* are one step each; the two registers behind them are 32-bit vectors.    *)
(* Spec is the specification of the streams, SpecGpio that of the pins.    *)
(***************************************************************************)
EXTENDS Integers, Sequences, FiniteSets

\* ------------------------------------------------------------------ bounds

\* Handles that may be constructed per direction (configure + reconfigure).
MaxHandles == 2

\* ------------------------------------------------------------- value sets

\* Direction of a stream: RxSyncStream or TxSyncStream.
D == {"Rx", "Tx"}

\* The device type parameter D of a stream.
Variants == {"BladeRf1", "BladeRf2", "BladeRfAny"}

\* The type parameter T: &'a D (borrowed) or Arc<D> (shared).
Modes == {"borrowed", "shared"}

\* The SampleFormat type parameter F.
Formats == {"ComplexI16", "ComplexI8"}

\* StreamConfig values a caller may pass.
Configs == {"cfgA", "cfgB"}

\* Statuses the driver may answer each call with: 0 is success, a negative
\* value a libbladeRF error code (check_res! turns it into Err).
SyncConfigStatuses == {0, -3, -4}
EnableModuleStatuses == {0, -5}
SyncTransferStatuses == {0, -6}

\* Sample formats, configurations and driver answers of the runs in which
\* both directions stream at once.
DuplexFormats == {"ComplexI16"}
DuplexConfigs == {"cfgA"}
BorrowedDuplexStatuses == {0, -6}
SharedDuplexStatuses == {0, -3}

\* ChannelLayoutRx / ChannelLayoutTx.
SISO(c) == <<"SISO", c>>
MIMO == <<"MIMO">>
Layouts == {SISO(0), SISO(1), MIMO}

\* Layouts the constructor of a variant accepts (capability of the variant).
LayoutsOf(v) == IF v = "BladeRf1" THEN {SISO(0)} ELSE Layouts

\* Arguments of set_sync_config: <F>, layout and &config.
NoArg == [fmt |-> "none", layout |-> <<"none">>, config |-> "none"]

\* A stream struct: its fields layout and config, its type parameter F, and
\* an identity that tells one struct from the next one built.
NoHandle == [id |-> 0, fmt |-> "none", layout |-> <<"none">>, config |-> "none"]
MkHandle(i, a) == [id |-> i, fmt |-> a.fmt, layout |-> a.layout, config |-> a.config]
ArgsOf(h) == [fmt |-> h.fmt, layout |-> h.layout, config |-> h.config]

\* Result<..> of an operation: Ok, or Err carrying the failing call's error.
Pending == [ok |-> FALSE, call |-> "pending", ch |-> -1, code |-> 0]
Ok == [ok |-> TRUE, call |-> "none", ch |-> -1, code |-> 0]
Err(callname, c, st) == [ok |-> FALSE, call |-> callname, ch |-> c, code |-> st]

\* ------------------------------------------------- transfer arguments
\* Unsigned integers wider than TLC's are sequences of 16-bit limbs, least
\* significant first: two limbs a u32, four a u64 / usize, eight a u128.
LimbBase == 2^16

Limb(x, i) == IF i <= Len(x) THEN x[i] ELSE 0

\* The same natural number, whatever the widths.
SameNumber(x, y) ==
    \A i \in 1..(IF Len(x) >= Len(y) THEN Len(x) ELSE Len(y)) : Limb(x, i) = Limb(y, i)

\* x * m + c for small m and c, one limb longer than x.
RECURSIVE MulAdd(_, _, _)
MulAdd(x, m, c) ==
    IF x = <<>> THEN <<c>>
    ELSE LET v == Head(x) * m + c
         IN <<v % LimbBase>> \o MulAdd(Tail(x), m, v \div LimbBase)

\* Duration::as_millis: secs * 1000 + nanos / 1_000_000, as a u128.
as_millis(t) ==
    LET v == MulAdd(t.secs, 1000, t.nanos \div 1000000)
    IN [i \in 1..8 |-> Limb(v, i)]

\* `as u32`: the low 32 bits, the others are cut off.
AsU32(x) == [i \in 1..2 |-> Limb(x, i)]

\* buffer.len() (usize) of the slices an application transfers: 1024,
\* 2^32 - 1, 2^32, 2^32 + 1024, 2^48.
BufferLengths ==
    {<<1024, 0, 0, 0>>, <<65535, 65535, 0, 0>>, <<0, 0, 1, 0>>, <<1024, 0, 1, 0>>,
     <<0, 0, 0, 1>>}

\* Durations (secs: u64, nanos < 10^9): 1.5 s, 999999 ns, 2^32 - 1 ms,
\* 2^32 ms, 2^32 ms + 250 ms, 2^32 s.
Timeouts ==
    {[secs |-> <<1, 0, 0, 0>>, nanos |-> 500000000],
     [secs |-> <<0, 0, 0, 0>>, nanos |-> 999999],
     [secs |-> <<35127, 65, 0, 0>>, nanos |-> 295000000],
     [secs |-> <<35127, 65, 0, 0>>, nanos |-> 296000000],
     [secs |-> <<35127, 65, 0, 0>>, nanos |-> 546000000],
     [secs |-> <<0, 0, 1, 0>>, nanos |-> 0]}

\* What an application transfers with: every sample above, or one buffer
\* of 1024 samples and a timeout of 1.5 s.
FullWorkload == [lens |-> BufferLengths, timeouts |-> Timeouts]
PlainWorkload ==
    [lens |-> {<<1024, 0, 0, 0>>},
     timeouts |-> {[secs |-> <<1, 0, 0, 0>>, nanos |-> 500000000]}]

\* One call at the driver boundary, as a spy would record it.
Call(dir, callname, c, on, a, h, st) ==
    [dir |-> dir, call |-> callname, ch |-> c, on |-> on, arg |-> a, by |-> h, st |-> st]

\* bladerf_sync_rx / bladerf_sync_tx as recorded: the call, with the sample
\* count and the timeout handed to the driver (u32 each) next to the buffer
\* length and the Duration the caller gave.
TransferCall(dir, n, t, h, st) ==
    [dir |-> dir, call |-> "sync_transfer", ch |-> -1, on |-> FALSE, arg |-> NoArg,
     by |-> h, st |-> st,
     buf_len |-> n, timeout |-> t,
     count |-> AsU32(n), timeout_ms |-> AsU32(as_millis(t))]

\* ----------------------------------------------------------------- state

VARIABLES
    variant,     \* device type the streams are bound to
    mode,        \* how the streams hold the device
    dirs,        \* directions the program streams in
    strong,      \* Arc strong count of the device (shared mode)
    appArc,      \* the application still holds its own Arc
    workload,    \* buffer lengths and timeouts the application transfers with
    handle,      \* handle[d]: the stream the caller of direction d holds
    old,         \* old[d]: `self` moved into reconfigure or into drop
    ret,         \* ret[d]: the value reconfigure_inner is about to return
    args,        \* args[d]: config and layout passed to reconfigure
    pc,          \* pc[d]: position of the caller of direction d
    op,          \* op[d]: operation in progress or last completed
    trace,       \* trace[d]: driver calls of that operation, in order
    result,      \* result[d]: what the operation returned
    nextId,      \* nextId[d]: identity of the next stream struct
    built,       \* built[d]: structs constructed, with the arguments given to new
    released,    \* released[d]: identities whose drop has completed
    hw_enabled,  \* hw_enabled[d][c]: channel c of direction d is enabled
    hw_sync,     \* hw_sync[d]: sync configuration the driver holds
    lastCfg,     \* lastCfg[d]: arguments of the last successful set_sync_config
    story,       \* story[d]: how far the caller is in one of the tracked call sequences
    gpins,       \* pin numbers the program holds a pin handle for
    tag,         \* tag[p]: direction type of the handle of pin p
    gpio_reg,    \* expansion GPIO value register (32 bits)
    dir_reg,     \* expansion GPIO direction register (32 bits, 1 = output)
    gpio_init,   \* value of the GPIO value register when the pins were created
    dir_init,    \* value of the direction register when the pins were created
    lastw,       \* lastw[p]: level of the last successful write through pin p's handle
    lastd,       \* lastd[p]: direction of the last successful conversion of pin p's handle
    gop          \* the last pin operation and its driver calls

hwVars == <<hw_enabled, hw_sync, lastCfg>>

\* Driver answers of a run with both directions: transfers may fail on a
\* borrowed device, set_sync_config on a shared one.
DuplexStatuses ==
    IF mode = "shared" THEN SharedDuplexStatuses ELSE BorrowedDuplexStatuses

\* Inputs of a step: the set `full` in a run with one direction, its
\* members in the smaller set `few` in a run with both.
InputsOf(full, few) == IF dirs = D THEN full \cap few ELSE full
devVars == <<variant, mode, dirs, workload>>
vars == <<variant, mode, dirs, workload, strong, appArc, handle, old, ret, args, pc, op,
          trace, result, nextId, built, released, hw_enabled, hw_sync, lastCfg,
          story, gpins, tag, gpio_reg, dir_reg, gpio_init, dir_init, lastw, lastd,
          gop>>
gpioVars == <<gpins, tag, gpio_reg, dir_reg, gpio_init, dir_init, lastw, lastd, gop>>
streamVars == <<variant, mode, dirs, workload, strong, appArc, handle, old, ret, args, pc, op,
                trace, result, nextId, built, released, hw_enabled, hw_sync, lastCfg,
                story>>

\* ---------------------------------------------------------------- driver

\* bladerf_sync_config: on success the direction holds the new configuration.
DrvSetSyncConfig(d, a, st) ==
    /\ hw_sync' = IF st = 0 THEN [hw_sync EXCEPT ![d] = a] ELSE hw_sync
    /\ lastCfg' = IF st = 0 THEN [lastCfg EXCEPT ![d] = a] ELSE lastCfg
    /\ UNCHANGED hw_enabled

\* bladerf_enable_module: on success the channel is switched; switching a
\* channel off voids the sync configuration of its direction.
DrvSetEnableModule(d, c, on, st) ==
    /\ hw_enabled' = IF st = 0 THEN [hw_enabled EXCEPT ![d][c] = on] ELSE hw_enabled
    /\ hw_sync' = IF st = 0 /\ ~on THEN [hw_sync EXCEPT ![d] = NoArg] ELSE hw_sync
    /\ UNCHANGED lastCfg

\* bladerf_sync_rx / bladerf_sync_tx: fails when no sync configuration is held.
DrvSyncTransfer(d, st) ==
    /\ hw_sync[d] = NoArg => st # 0
    /\ UNCHANGED hwVars

\* ------------------------------------------------------------------- code

\* Faulty variant: the outbound stream names the receive channels.
ChanDirMut(d) == "Rx"

\* Direction the code of the stream of direction d addresses: the channels
\* it names (Channel::Rx0 / Rx1 in RxSyncStream, Channel::Tx0 / Tx1 in
\* TxSyncStream), its layout type and its transfer call.
ChanDir(d) == d

\* Faulty variant: the BladeRf2 body used for every device type.
EnableChannelsByLayout(v, layout) == IF layout = MIMO THEN <<0, 1>> ELSE <<layout[2]>>

\* Faulty variant: both channels are switched on whatever the layout.
EnableChannelsBoth(v, layout) == <<0, 1>>

\* Faulty variant: the BladeRf1 body used for every device type.
EnableChannelsMut(v, layout) == <<0>>

\* Channels enable() switches on, in order.
EnableChannels(v, layout) ==
    IF v = "BladeRf1" THEN <<0>>
    ELSE IF layout = MIMO THEN <<0, 1>>
    ELSE <<layout[2]>>

\* Faulty variant: the status of the transfer call is not checked.
TransferResultMut(st) == Ok

\* read() / write(): check_res!(res) turns a non-zero status into Err,
\* then Ok(()).
TransferResult(st) == IF st = 0 THEN Ok ELSE Err("sync_transfer", -1, st)

\* Faulty variant: the BladeRf1 body of disable() used for every device type.
DisableChannelsFirstOnly(v, layout) == <<0>>

\* Faulty variant: the body of Drop::drop used for disable().
DisableChannelsMut(v, layout) == <<0, 1>>

\* Channels disable() switches off, in order.
DisableChannels(v, layout) ==
    IF v = "BladeRf1" THEN <<0>>
    ELSE IF layout = MIMO THEN <<0, 1>>
    ELSE <<layout[2]>>

\* Faulty variant: only the first channel is switched off.
DropChannelsMut == <<0>>

\* Channels Drop::drop switches off, in order.
DropChannels == <<0, 1>>

\* Faulty variant: drop written with `?`-like early exit.
DropStopsOnErrorMut == TRUE

\* Drop::drop discards each result (`let _ =`): a failed call does not end it.
DropStopsOnError == FALSE

\* Faulty variant: results discarded as in drop.
ModuleStopsOnErrorMut == FALSE

\* enable() and disable() propagate a failed call with `?`.
ModuleStopsOnError == TRUE

\* Faulty variant: enable configures another sample format.
EnableSyncArgsMut(h) == [ArgsOf(h) EXCEPT !.fmt = CHOOSE f \in Formats : f # h.fmt]

\* Arguments enable() passes to set_sync_config: the stored ones.
EnableSyncArgs(h) == ArgsOf(h)

\* Faulty variant: the result of enable's set_sync_config is discarded.
EnableProceedsMut(st) == TRUE

\* enable() propagates a rejected set_sync_config with `?`.
EnableProceeds(st) == st = 0

\* Faulty variant: the reference is moved out of the old handle, not cloned.
ArcCloneMut(m, n) == n

\* reconfigure_inner's copy of the device reference: self.dev.clone() adds
\* a holder in shared mode; copying a `&D` adds none.
ArcClone(m, n) == IF m = "shared" THEN n + 1 ELSE n

\* The struct new() builds from dev, config and layout.
NewHandle(i, a) == MkHandle(i, a)

\* Faulty variant: the result of set_sync_config is not checked.
NewSucceedsMut(st) == TRUE

\* new(): `set_sync_config(..)?` lets the struct be built on success only.
NewSucceeds(st) == st = 0

\* Faulty variant: the stream is copied, the caller keeps it.
AfterMoveMut(h) == h

\* What the caller's binding holds once the stream h was moved out of it
\* (reconfigure takes self by value; a dropped value is gone).
AfterMove(h) == NoHandle

\* Faulty variant: BladeRf1 reconfigures to the dual-channel layout.
ReconfigureLayoutMut(v, layout) == IF v = "BladeRf1" THEN MIMO ELSE layout

\* Layout reconfigure passes on: fixed for BladeRf1, the caller's otherwise.
ReconfigureLayout(v, layout) == IF v = "BladeRf1" THEN SISO(0) ELSE layout

\* reconfigure_inner: whether drop(self) runs before new() is called.
\* RxSyncStream drops self explicitly first; TxSyncStream passes self.dev to
\* new() and self is dropped when the function returns.
DropsBeforeNew(d) == d = "Rx"

\* ------------------------------------------------------------ pin handles

\* Number of bits of a u32, the type of the GPIO registers and of a mask.
Width == 32
BitIndex == 0..(Width - 1)

\* Pin numbers the macro bladerf_gpio! is given: 1..32, one per register bit.
Pins == 1..Width

\* A u32 as its bits, bit 0 the least significant.  U32(n) is the u32 of a
\* literal n below 2^31.
U32(n) == [i \in BitIndex |-> IF i < Width - 1 THEN (n \div (2 ^ i)) % 2 ELSE 0]
U32Max == [i \in BitIndex |-> 1]

\* The literals 0 and 1 as u32.
Zero32 == U32(0)
One32 == U32(1)

\* x << n and x >> n on u32, for a shift amount 0 <= n < 32: bits shifted
\* out are lost, zeros are shifted in.
Shl(x, n) == [i \in BitIndex |-> IF i >= n THEN x[i - n] ELSE 0]
Shr(x, n) == [i \in BitIndex |-> IF i + n < Width THEN x[i + n] ELSE 0]

\* x & y, x | y and !x on u32.
BitAnd(x, y) == [i \in BitIndex |-> x[i] * y[i]]
BitOr(x, y) == [i \in BitIndex |-> IF x[i] + y[i] > 0 THEN 1 ELSE 0]
BitNot(x) == [i \in BitIndex |-> 1 - x[i]]

\* PinState of embedded_hal.
Levels == {"High", "Low"}

\* The type parameter T of XbGpioPin: Disabled, Input or Output.  "Gone" is
\* a handle that was consumed without another one being returned, "None" a
\* pin the program was never given.
Tags == {"Disabled", "Input", "Output"}

\* Statuses the driver may answer a GPIO call with.
GpioStatuses == {0, -1}

\* Contents the GPIO value register and the direction register may hold
\* when the pins are created.
RegSamples == {Zero32, U32(16), U32Max}
DirSamples == {Zero32, U32Max}

\* First pin of the pair of neighbouring pins a run operates on.
BasePins == {1, 5, 16, 31, 32}

\* One GPIO call at the driver boundary.
GpioCall(callname, mask, value, st) ==
    [call |-> callname, mask |-> mask, value |-> value, st |-> st]

\* No pin operation yet.
NoGop == [op |-> "none", pin |-> 0, level |-> "none",
          ok |-> TRUE, out |-> "none", calls |-> <<>>]

\* bladerf_expansion_gpio_masked_write / _gpio_dir_masked_write: the bits
\* selected by mask take the bits of value, the others keep theirs.
DrvMaskedWrite(reg, mask, value) == BitOr(BitAnd(reg, BitNot(mask)), BitAnd(value, mask))

\* Faulty variant: the shift is by the pin number, not by pin - 1.
pin_to_bitmaskMut(pin) == Shl(One32, pin)

\* pin_to_bitmask: 1 << (pin - 1).
pin_to_bitmask(pin) == Shl(One32, pin - 1)

\* Faulty variant: the shift is by the pin number, not by pin - 1.
pinstate_from_regMut(pin, reg) == BitAnd(Shr(reg, pin), One32) = One32

\* pinstate_from_reg: ((reg >> (pin - 1)) & 1) == 1.
pinstate_from_reg(pin, reg) == BitAnd(Shr(reg, pin - 1), One32) = One32

\* into_input: the `outputs` argument of gpio_dir_masked_write.
IntoInputValue == Zero32

\* Faulty variant: into_output written with into_input's argument.
IntoOutputValueMut == IntoInputValue

\* into_output: the `outputs` argument of gpio_dir_masked_write.
IntoOutputValue == U32Max

\* Faulty variant: the direction of every pin is written.
IntoMaskMut(pin) == U32Max

\* into_input / into_output: the mask argument of gpio_dir_masked_write.
IntoMask(pin) == pin_to_bitmask(pin)

\* Faulty variant: into_output returns the handle with into_input's type.
IntoOutputTagMut == "Input"

\* The type of the handle into_input / into_output returns.
IntoInputTag == "Input"
IntoOutputTag == "Output"

\* Types of handle into_input and into_output are implemented for: the impl
\* block is generic in T.
IntoSourceTags == Tags

\* Faulty variant: the mask is inverted, every bit but the pin's is selected.
WriteMaskInverted(pin) == BitNot(pin_to_bitmask(pin))

\* Faulty variant: the whole register is written (gpio_write).
WriteMaskMut(pin) == U32Max

\* write: the mask argument of gpio_masked_write.
WriteMask(pin) == pin_to_bitmask(pin)

\* Faulty variant: the two arms of the match are swapped.
WriteValueMut(level) == IF level = "High" THEN Zero32 ELSE U32Max

\* write: the value argument of gpio_masked_write.
WriteValue(level) == IF level = "High" THEN U32Max ELSE Zero32

\* read: the PinState returned for the register value gpio_read returned.
ReadLevel(pin, state_raw) == IF pinstate_from_reg(pin, state_raw) THEN "High" ELSE "Low"

\* ----------------------------------------------------------- call history

\* story[d] follows two call sequences of the caller of direction d:
\*   enable failing on channel 1 after channel 0 was enabled ("partial"),
\*     then a disable ("partial_dis");
\*   a successful transfer ("xfer"), then a successful disable ("xfer_dis"),
\*     then a transfer ("xfer_dis_xfer").
\*   a reconfigure from SISO(A) to SISO(B), A # B, called while channel A
\*     was on ("swapOn") or off ("swapOff"); on its return "swapOnClean"
\*     when the disable call for channel A succeeded, "swapOnDirty" when it
\*     failed; then a successful enable (suffix "En").
\* Any other completed operation starts over ("none").  res is what the
\* operation o returned (Pending while it is still running) and tr its trace.
StoryAtReconfigure(layout, newLayout, enabled) ==
    IF layout # MIMO /\ newLayout # MIMO /\ layout # newLayout
    THEN (IF enabled[layout[2]] THEN "swapOn" ELSE "swapOff")
    ELSE "none"

StoryAtReturn(cur, new, tr) ==
    IF new = NoHandle \/ cur \notin {"swapOn", "swapOff"} THEN "none"
    ELSE IF cur = "swapOff" THEN "swapOff"
    ELSE IF \E i \in 1..Len(tr) :
                /\ tr[i].call = "set_enable_module" /\ ~tr[i].on
                /\ tr[i].ch # new.layout[2] /\ tr[i].st # 0
         THEN "swapOnDirty"
         ELSE "swapOnClean"

StoryAfter(cur, o, res, tr) ==
    IF res = Pending THEN (IF o \in {"disable", "enable"} THEN cur ELSE "none")
    ELSE IF o = "enable" THEN
        IF res.ok /\ cur = "swapOnClean" THEN "swapOnCleanEn"
        ELSE IF res.ok /\ cur = "swapOnDirty" THEN "swapOnDirtyEn"
        ELSE IF res.ok /\ cur = "swapOff" THEN "swapOffEn"
        ELSE IF /\ ~res.ok
                /\ res.call = "set_enable_module"
                /\ res.ch = 1
                /\ \E i \in 1..Len(tr) :
                       /\ tr[i].call = "set_enable_module" /\ tr[i].on
                       /\ tr[i].ch = 0 /\ tr[i].st = 0
        THEN "partial" ELSE "none"
    ELSE IF o = "disable" THEN
        IF cur = "partial" THEN "partial_dis"
        ELSE IF cur = "xfer" /\ res.ok THEN "xfer_dis"
        ELSE "none"
    ELSE IF o = "transfer" THEN
        IF cur = "xfer_dis" THEN "xfer_dis_xfer"
        ELSE IF res.ok THEN "xfer"
        ELSE "none"
    ELSE "none"

\* ------------------------------------------------------------------- init

\* No stream was constructed and the driver holds no stream configuration.
StreamsUnbuilt ==
    /\ handle = [d \in D |-> NoHandle]
    /\ old = [d \in D |-> NoHandle]
    /\ ret = [d \in D |-> NoHandle]
    /\ args = [d \in D |-> NoArg]
    /\ pc = [d \in D |-> "idle"]
    /\ op = [d \in D |-> "none"]
    /\ trace = [d \in D |-> <<>>]
    /\ result = [d \in D |-> Ok]
    /\ nextId = [d \in D |-> 1]
    /\ built = [d \in D |-> {}]
    /\ released = [d \in D |-> {}]
    /\ hw_enabled = [d \in D |-> [c \in {0, 1} |-> FALSE]]
    /\ hw_sync = [d \in D |-> NoArg]
    /\ lastCfg = [d \in D |-> NoArg]
    /\ story = [d \in D |-> "none"]

\* No pin handle was created.
PinsUnused ==
    /\ gpins = {}
    /\ tag = [p \in Pins |-> "None"]
    /\ gpio_reg = Zero32
    /\ dir_reg = Zero32
    /\ gpio_init = Zero32
    /\ dir_init = Zero32
    /\ lastw = [p \in Pins |-> "none"]
    /\ lastd = [p \in Pins |-> "none"]
    /\ gop = NoGop

\* A run fixes the device type, the ownership mode and the direction it
\* streams in; no stream exists yet and the driver holds no configuration.
Init ==
    /\ variant \in Variants
    /\ mode \in Modes
    /\ dirs \in {{"Rx"}, {"Tx"}}
    /\ strong = IF mode = "shared" THEN 1 ELSE 0
    /\ appArc = (mode = "shared")
    /\ workload = PlainWorkload
    /\ StreamsUnbuilt
    /\ PinsUnused

\* Handles of direction d that exist: constructed and not yet dropped.
LiveHandles(d) == {handle[d], old[d], ret[d]} \ {NoHandle}

\* --------------------------------------------------------------- actions

\* RxSyncStream::new / TxSyncStream::new called by the device's streamer
\* constructor: set_sync_config, then the struct.  The constructor is only
\* called while no stream of the direction is live.
Configure(d) ==
    \E f \in InputsOf(Formats, DuplexFormats), c \in InputsOf(Configs, DuplexConfigs),
       l \in LayoutsOf(variant),
       st \in InputsOf(SyncConfigStatuses, DuplexStatuses) :
        LET a == [fmt |-> f, layout |-> l, config |-> c] IN
        /\ d \in dirs
        /\ pc[d] = "idle"
        /\ LiveHandles(d) = {}
        /\ nextId[d] <= MaxHandles
        /\ mode = "shared" => appArc
        /\ DrvSetSyncConfig(ChanDir(d), a, st)
        /\ story' = [story EXCEPT ![d] = "none"]
        /\ op' = [op EXCEPT ![d] = "configure"]
        /\ trace' = [trace EXCEPT ![d] =
                        <<Call(ChanDir(d), "set_sync_config", -1, FALSE, a, nextId[d], st)>>]
        /\ IF NewSucceeds(st)
           THEN /\ handle' = [handle EXCEPT ![d] = NewHandle(nextId[d], a)]
                /\ built' = [built EXCEPT ![d] = @ \cup {MkHandle(nextId[d], a)}]
                /\ result' = [result EXCEPT ![d] = Ok]
                /\ strong' = IF mode = "shared" THEN strong + 1 ELSE strong
           ELSE /\ result' = [result EXCEPT ![d] = Err("set_sync_config", -1, st)]
                /\ UNCHANGED <<handle, built, strong>>
        /\ nextId' = IF NewSucceeds(st) THEN [nextId EXCEPT ![d] = @ + 1] ELSE nextId
        /\ UNCHANGED <<gpioVars, devVars, appArc, old, ret, args, pc, released>>

\* RxSyncStream::read / TxSyncStream::write: one bladerf_sync_rx / _tx call.
Transfer(d) ==
    \E st \in InputsOf(SyncTransferStatuses, DuplexStatuses),
       n \in workload.lens, t \in workload.timeouts :
        /\ d \in dirs
        /\ pc[d] = "idle"
        /\ handle[d] # NoHandle
        /\ DrvSyncTransfer(ChanDir(d), st)
        /\ op' = [op EXCEPT ![d] = "transfer"]
        /\ trace' = [trace EXCEPT ![d] =
                        <<TransferCall(ChanDir(d), n, t, handle[d].id, st)>>]
        /\ result' = [result EXCEPT ![d] = TransferResult(st)]
        /\ story' = [story EXCEPT ![d] = StoryAfter(@, "transfer", result'[d], trace'[d])]
        /\ UNCHANGED <<gpioVars, devVars, strong, appArc, handle, old, ret, args, pc,
                       nextId, built, released>>

\* enable(), first statement: set_sync_config with the stored configuration;
\* a failure returns (`?`).
EnableSyncConfig(d) ==
    \E st \in InputsOf(SyncConfigStatuses, DuplexStatuses) :
        LET a == EnableSyncArgs(handle[d]) IN
        /\ d \in dirs
        /\ pc[d] = "idle"
        /\ handle[d] # NoHandle
        /\ DrvSetSyncConfig(ChanDir(d), a, st)
        /\ op' = [op EXCEPT ![d] = "enable"]
        /\ trace' = [trace EXCEPT ![d] =
                        <<Call(ChanDir(d), "set_sync_config", -1, FALSE, a, handle[d].id, st)>>]
        /\ IF EnableProceeds(st)
           THEN /\ pc' = [pc EXCEPT ![d] = "enable"]
                /\ result' = [result EXCEPT ![d] = Pending]
           ELSE /\ pc' = [pc EXCEPT ![d] = "idle"]
                /\ result' = [result EXCEPT ![d] = Err("set_sync_config", -1, st)]
        /\ story' = [story EXCEPT ![d] = StoryAfter(@, "enable", result'[d], trace'[d])]
        /\ UNCHANGED <<gpioVars, devVars, strong, appArc, handle, old, ret, args,
                       nextId, built, released>>

\* enable(), the set_enable_module(ch, true) calls that follow.
EnableModule(d) ==
    \E st \in InputsOf(EnableModuleStatuses, DuplexStatuses) :
        LET chans == EnableChannels(variant, handle[d].layout)
            k == Len(trace[d])
            c == chans[k]
            stop == (st # 0 /\ ModuleStopsOnError) \/ k = Len(chans)
        IN
        /\ pc[d] = "enable"
        /\ DrvSetEnableModule(ChanDir(d), c, TRUE, st)
        /\ trace' = [trace EXCEPT ![d] =
                        Append(@, Call(ChanDir(d), "set_enable_module", c, TRUE, NoArg, handle[d].id, st))]
        /\ pc' = [pc EXCEPT ![d] = IF stop THEN "idle" ELSE "enable"]
        /\ result' = [result EXCEPT ![d] =
                        IF st # 0 /\ ModuleStopsOnError
                        THEN Err("set_enable_module", c, st)
                        ELSE IF stop THEN Ok ELSE Pending]
        /\ story' = [story EXCEPT ![d] = StoryAfter(@, "enable", result'[d], trace'[d])]
        /\ UNCHANGED <<gpioVars, devVars, strong, appArc, handle, old, ret, args, op,
                       nextId, built, released>>

\* disable(): the set_enable_module(ch, false) calls, the first one from idle.
Disable(d) ==
    \E st \in InputsOf(EnableModuleStatuses, DuplexStatuses) :
        LET first == pc[d] = "idle"
            tr == IF first THEN <<>> ELSE trace[d]
            chans == DisableChannels(variant, handle[d].layout)
            k == Len(tr) + 1
            c == chans[k]
            stop == (st # 0 /\ ModuleStopsOnError) \/ k = Len(chans)
        IN
        /\ d \in dirs
        /\ pc[d] \in {"idle", "disable"}
        /\ handle[d] # NoHandle
        /\ DrvSetEnableModule(ChanDir(d), c, FALSE, st)
        /\ op' = [op EXCEPT ![d] = "disable"]
        /\ trace' = [trace EXCEPT ![d] =
                        Append(tr, Call(ChanDir(d), "set_enable_module", c, FALSE, NoArg, handle[d].id, st))]
        /\ pc' = [pc EXCEPT ![d] = IF stop THEN "idle" ELSE "disable"]
        /\ result' = [result EXCEPT ![d] =
                        IF st # 0 /\ ModuleStopsOnError
                        THEN Err("set_enable_module", c, st)
                        ELSE IF stop THEN Ok ELSE Pending]
        /\ story' = [story EXCEPT ![d] = StoryAfter(@, "disable", result'[d], trace'[d])]
        /\ UNCHANGED <<gpioVars, devVars, strong, appArc, handle, old, ret, args,
                       nextId, built, released>>

\* The stream goes out of scope in the caller: Drop::drop is entered.
Release(d) ==
    /\ d \in dirs
    /\ pc[d] = "idle"
    /\ handle[d] # NoHandle
    /\ old' = [old EXCEPT ![d] = handle[d]]
    /\ handle' = [handle EXCEPT ![d] = AfterMove(handle[d])]
    /\ story' = [story EXCEPT ![d] = "none"]
    /\ op' = [op EXCEPT ![d] = "release"]
    /\ trace' = [trace EXCEPT ![d] = <<>>]
    /\ result' = [result EXCEPT ![d] = Pending]
    /\ pc' = [pc EXCEPT ![d] = "drop0"]
    /\ UNCHANGED <<gpioVars, devVars, strong, appArc, ret, args, nextId, built, released, hwVars>>

\* Where the caller continues once drop(self) has completed.
AfterDrop(d) ==
    IF op[d] = "release" THEN "idle"
    ELSE IF DropsBeforeNew(d) THEN "rc_new" ELSE "rc_ret"

\* Drop::drop: set_enable_module(ch, false) for both channels of the
\* direction; then the struct is gone and its `dev` field is dropped.
DropModule(d) ==
    \E st \in InputsOf(EnableModuleStatuses, DuplexStatuses) :
        LET k == IF pc[d] = "drop0" THEN 1 ELSE 2
            c == DropChannels[k]
            done == (st # 0 /\ DropStopsOnError) \/ k = Len(DropChannels)
        IN
        /\ pc[d] \in {"drop0", "drop1"}
        /\ DrvSetEnableModule(ChanDir(d), c, FALSE, st)
        /\ trace' = [trace EXCEPT ![d] =
                        Append(@, Call(ChanDir(d), "set_enable_module", c, FALSE, NoArg, old[d].id, st))]
        /\ IF done
           THEN /\ pc' = [pc EXCEPT ![d] = AfterDrop(d)]
                /\ old' = [old EXCEPT ![d] = NoHandle]
                /\ released' = [released EXCEPT ![d] = @ \cup {old[d].id}]
                /\ built' = [built EXCEPT ![d] = {b \in @ : b.id # old[d].id}]
                /\ strong' = IF mode = "shared" THEN strong - 1 ELSE strong
                /\ result' = [result EXCEPT ![d] = IF op[d] = "release" THEN Ok ELSE @]
           ELSE /\ pc' = [pc EXCEPT ![d] = "drop1"]
                /\ UNCHANGED <<old, released, strong, result, built>>
        /\ UNCHANGED <<gpioVars, story, devVars, appArc, handle, ret, args, op, nextId>>

\* reconfigure(self, config[, layout]) -> reconfigure_inner: self is moved in,
\* the device reference is copied (borrowed) or cloned (shared).
ReconfigureCall(d) ==
    \E nf \in InputsOf(Formats, DuplexFormats), c \in InputsOf(Configs, DuplexConfigs),
       l \in LayoutsOf(variant) :
        /\ d \in dirs
        /\ pc[d] = "idle"
        /\ handle[d] # NoHandle
        /\ nextId[d] <= MaxHandles
        /\ old' = [old EXCEPT ![d] = handle[d]]
        /\ handle' = [handle EXCEPT ![d] = AfterMove(handle[d])]
        /\ args' = [args EXCEPT ![d] =
                       [fmt |-> nf, layout |-> ReconfigureLayout(variant, l), config |-> c]]
        /\ strong' = ArcClone(mode, strong)
        /\ story' = [story EXCEPT ![d] =
                        StoryAtReconfigure(handle[d].layout, ReconfigureLayout(variant, l),
                                           hw_enabled[d])]
        /\ op' = [op EXCEPT ![d] = "reconfigure"]
        /\ trace' = [trace EXCEPT ![d] = <<>>]
        /\ result' = [result EXCEPT ![d] = Pending]
        /\ pc' = [pc EXCEPT ![d] = IF DropsBeforeNew(d) THEN "drop0" ELSE "rc_new"]
        /\ UNCHANGED <<gpioVars, devVars, appArc, ret, nextId, built, released, hwVars>>

\* reconfigure_inner: the call of new(dev, config, layout).  On failure the
\* device reference given to new() is dropped with it.
ReconfigureNew(d) ==
    \E st \in InputsOf(SyncConfigStatuses, DuplexStatuses) :
        /\ pc[d] = "rc_new"
        /\ DrvSetSyncConfig(ChanDir(d), args[d], st)
        /\ trace' = [trace EXCEPT ![d] =
                        Append(@, Call(ChanDir(d), "set_sync_config", -1, FALSE, args[d], nextId[d], st))]
        /\ IF NewSucceeds(st)
           THEN /\ ret' = [ret EXCEPT ![d] = NewHandle(nextId[d], args[d])]
                /\ built' = [built EXCEPT ![d] = @ \cup {MkHandle(nextId[d], args[d])}]
                /\ nextId' = [nextId EXCEPT ![d] = @ + 1]
                /\ result' = [result EXCEPT ![d] = Ok]
                /\ UNCHANGED strong
           ELSE /\ result' = [result EXCEPT ![d] = Err("set_sync_config", -1, st)]
                /\ strong' = IF mode = "shared" THEN strong - 1 ELSE strong
                /\ UNCHANGED <<ret, built, nextId>>
        /\ pc' = [pc EXCEPT ![d] = IF DropsBeforeNew(d) THEN "rc_ret" ELSE "drop0"]
        /\ UNCHANGED <<gpioVars, story, devVars, appArc, handle, old, args, op, released>>

\* reconfigure returns: the caller holds the new stream, or nothing.
ReconfigureReturn(d) ==
    /\ pc[d] = "rc_ret"
    /\ handle' = [handle EXCEPT ![d] = ret[d]]
    /\ ret' = [ret EXCEPT ![d] = NoHandle]
    /\ args' = [args EXCEPT ![d] = NoArg]
    /\ pc' = [pc EXCEPT ![d] = "idle"]
    /\ story' = [story EXCEPT ![d] = StoryAtReturn(@, ret[d], trace[d])]
    /\ UNCHANGED <<gpioVars, devVars, strong, appArc, old, op, trace, result, nextId,
                   built, released, hwVars>>

\* The application drops its own Arc of the device.
AppDropArc ==
    /\ mode = "shared"
    /\ appArc
    /\ appArc' = FALSE
    /\ strong' = strong - 1
    /\ UNCHANGED <<gpioVars, story, devVars, handle, old, ret, args, pc, op, trace, result,
                   nextId, built, released, hwVars>>

Next ==
    \/ \E d \in D : Configure(d)
    \/ \E d \in D : Transfer(d)
    \/ \E d \in D : EnableSyncConfig(d)
    \/ \E d \in D : EnableModule(d)
    \/ \E d \in D : Disable(d)
    \/ \E d \in D : Release(d)
    \/ \E d \in D : DropModule(d)
    \/ \E d \in D : ReconfigureCall(d)
    \/ \E d \in D : ReconfigureNew(d)
    \/ \E d \in D : ReconfigureReturn(d)
    \/ AppDropArc

Spec == Init /\ [][Next]_vars

\* ------------------------------------------------------- both directions

\* One RxSyncStream and one TxSyncStream on the same borrowed device, each
\* driven by its own thread.
InitDuplex ==
    /\ variant \in {"BladeRf1", "BladeRf2"}
    /\ mode = "borrowed"
    /\ dirs = D
    /\ strong = 0
    /\ appArc = FALSE
    /\ workload = PlainWorkload
    /\ StreamsUnbuilt
    /\ PinsUnused

NextDuplex ==
    \/ \E d \in D : Configure(d)
    \/ \E d \in D : Transfer(d)
    \/ \E d \in D : EnableSyncConfig(d)
    \/ \E d \in D : EnableModule(d)
    \/ \E d \in D : Disable(d)
    \/ \E d \in D : Release(d)
    \/ \E d \in D : DropModule(d)
    \/ \E d \in D : ReconfigureCall(d)
    \/ \E d \in D : ReconfigureNew(d)
    \/ \E d \in D : ReconfigureReturn(d)

SpecDuplex == InitDuplex /\ [][NextDuplex]_vars

\* ------------------------------------------- both directions, shared

\* One RxSyncStream and one TxSyncStream, each holding a clone of the
\* application's Arc of the device and driven by its own thread; the
\* application may drop its own Arc at any time.
InitShared ==
    /\ variant \in {"BladeRf1", "BladeRf2"}
    /\ mode = "shared"
    /\ dirs = D
    /\ strong = 1
    /\ appArc = TRUE
    /\ workload = PlainWorkload
    /\ StreamsUnbuilt
    /\ PinsUnused

\* The operations that create, replace and destroy handles, and the
\* application giving up its reference.
NextShared ==
    \/ \E d \in D : Configure(d)
    \/ \E d \in D : Release(d)
    \/ \E d \in D : DropModule(d)
    \/ \E d \in D : ReconfigureCall(d)
    \/ \E d \in D : ReconfigureNew(d)
    \/ \E d \in D : ReconfigureReturn(d)
    \/ AppDropArc

SpecShared == InitShared /\ [][NextShared]_vars

\* ------------------------------------------------------------- transfers

\* One stream, built, used for transfers with every sampled buffer length
\* and timeout, and released.
InitTransfer ==
    /\ variant \in Variants
    /\ mode \in Modes
    /\ dirs \in {{"Rx"}, {"Tx"}}
    /\ strong = IF mode = "shared" THEN 1 ELSE 0
    /\ appArc = (mode = "shared")
    /\ workload = FullWorkload
    /\ StreamsUnbuilt
    /\ PinsUnused

NextTransfer ==
    \/ \E d \in D : Configure(d)
    \/ \E d \in D : Transfer(d)
    \/ \E d \in D : Release(d)
    \/ \E d \in D : DropModule(d)

SpecTransfer == InitTransfer /\ [][NextTransfer]_vars

\* ------------------------------------------------------------ pin actions

\* The pin following p on the expansion header, pin 1 after pin 32.
NextPin(p) == (p % Width) + 1

\* The expansion board's pin struct was created by its new(): every pin it
\* names has one Disabled handle.  A run operates two neighbouring pins; no
\* stream is built.
InitGpio ==
    /\ variant = "BladeRf1"
    /\ mode = "borrowed"
    /\ dirs = {}
    /\ strong = 0
    /\ appArc = FALSE
    /\ workload = PlainWorkload
    /\ StreamsUnbuilt
    /\ \E p \in BasePins :
           /\ gpins = {p, NextPin(p)}
           /\ tag = [q \in Pins |-> IF q \in {p, NextPin(p)} THEN "Disabled" ELSE "None"]
    /\ gpio_reg \in RegSamples
    /\ dir_reg \in DirSamples
    /\ gpio_init = gpio_reg
    /\ dir_init = dir_reg
    /\ lastw = [p \in Pins |-> "none"]
    /\ lastd = [p \in Pins |-> "none"]
    /\ gop = NoGop

\* Faulty variant: the result of the masked write is not looked at.
IntoResultTagMut(st, t) == t

\* into_input / into_output take self by value and leave through `?` when
\* gpio_dir_masked_write is rejected: the handle is dropped, none is built.
IntoResultTag(st, t) == IF st = 0 THEN t ELSE "Gone"

\* XbGpioPin::into_input(self): one gpio_dir_masked_write; on success the
\* Input handle is returned; self is consumed either way.
IntoInput(p) ==
    \E st \in GpioStatuses :
        LET mask == IntoMask(p)
            value == IntoInputValue
        IN
        /\ p \in gpins
        /\ tag[p] \in IntoSourceTags
        /\ dir_reg' = IF st = 0 THEN DrvMaskedWrite(dir_reg, mask, value) ELSE dir_reg
        /\ tag' = [tag EXCEPT ![p] = IntoResultTag(st, IntoInputTag)]
        /\ gop' = [op |-> "into_input", pin |-> p, level |-> "none",
                   ok |-> (st = 0), out |-> "none",
                   calls |-> <<GpioCall("gpio_dir_masked_write", mask, value, st)>>]
        /\ lastd' = IF st = 0 THEN [lastd EXCEPT ![p] = "in"] ELSE lastd
        /\ UNCHANGED <<streamVars, gpins, gpio_reg, gpio_init, dir_init, lastw>>

\* XbGpioPin::into_output(self): as into_input, with all-ones as `outputs`.
IntoOutput(p) ==
    \E st \in GpioStatuses :
        LET mask == IntoMask(p)
            value == IntoOutputValue
        IN
        /\ p \in gpins
        /\ tag[p] \in IntoSourceTags
        /\ dir_reg' = IF st = 0 THEN DrvMaskedWrite(dir_reg, mask, value) ELSE dir_reg
        /\ tag' = [tag EXCEPT ![p] = IntoResultTag(st, IntoOutputTag)]
        /\ gop' = [op |-> "into_output", pin |-> p, level |-> "none",
                   ok |-> (st = 0), out |-> "none",
                   calls |-> <<GpioCall("gpio_dir_masked_write", mask, value, st)>>]
        /\ lastd' = IF st = 0 THEN [lastd EXCEPT ![p] = "out"] ELSE lastd
        /\ UNCHANGED <<streamVars, gpins, gpio_reg, gpio_init, dir_init, lastw>>

\* XbGpioPin<Input>::read(&self): gpio_read, then the pin's bit decoded.
ReadPin(p) ==
    \E st \in GpioStatuses :
        /\ p \in gpins
        /\ tag[p] = "Input"
        /\ gop' = [op |-> "read", pin |-> p, level |-> "none",
                   ok |-> (st = 0),
                   out |-> IF st = 0 THEN ReadLevel(p, gpio_reg) ELSE "none",
                   calls |-> <<GpioCall("gpio_read", Zero32, Zero32, st)>>]
        /\ UNCHANGED <<streamVars, gpins, tag, gpio_reg, dir_reg, gpio_init, dir_init,
                       lastw, lastd>>

\* XbGpioPin<Output>::write(&self, state): one gpio_masked_write.
WritePin(p) ==
    \E level \in Levels, st \in GpioStatuses :
        LET mask == WriteMask(p)
            value == WriteValue(level)
        IN
        /\ p \in gpins
        /\ tag[p] = "Output"
        /\ gpio_reg' = IF st = 0 THEN DrvMaskedWrite(gpio_reg, mask, value) ELSE gpio_reg
        /\ gop' = [op |-> "write", pin |-> p, level |-> level,
                   ok |-> (st = 0), out |-> "none",
                   calls |-> <<GpioCall("gpio_masked_write", mask, value, st)>>]
        /\ lastw' = IF st = 0 THEN [lastw EXCEPT ![p] = level] ELSE lastw
        /\ UNCHANGED <<streamVars, gpins, tag, dir_reg, gpio_init, dir_init, lastd>>

NextGpio ==
    \/ \E p \in Pins : IntoInput(p)
    \/ \E p \in Pins : IntoOutput(p)
    \/ \E p \in Pins : ReadPin(p)
    \/ \E p \in Pins : WritePin(p)

SpecGpio == InitGpio /\ [][NextGpio]_vars

\* ----------------------------------------------------------- properties

IsConfigure(e) == e.call = "set_sync_config"
IsEnable(e) == e.call = "set_enable_module" /\ e.on
IsDisable(e) == e.call = "set_enable_module" /\ ~e.on
IsTransfer(e) == e.call = "sync_transfer"

\* Channels addressed by the calls of tr that satisfy the test, in order.
RECURSIVE ChannelsOf(_, _)
ChannelsOf(tr, on) ==
    IF tr = <<>> THEN <<>>
    ELSE LET e == Head(tr)
             rest == ChannelsOf(Tail(tr), on)
         IN IF e.call = "set_enable_module" /\ e.on = on THEN <<e.ch>> \o rest ELSE rest

\* Channels a layout names: the one of SISO, both of MIMO in order.
NamedChannels(layout) == IF layout = MIMO THEN <<0, 1>> ELSE <<layout[2]>>

IsPrefix(p, q) == Len(p) <= Len(q) /\ \A i \in 1..Len(p) : p[i] = q[i]

\* Arguments new() was given when it built the stream the caller holds.
BuiltArgs(d) == ArgsOf(CHOOSE b \in built[d] : b.id = handle[d].id)

BuiltIds(d) == {b.id : b \in built[d]}

Completed(d, o) == op[d] = o /\ pc[d] = "idle"

\* C1: in reconfigure (either direction, either ownership mode) the disable
\* calls for channel 0 and channel 1 of the old handle reach the driver
\* before the set_sync_config of the new configuration, and none after it.
C1_TeardownBeforeConfigure ==
    \A d \in D :
        op[d] = "reconfigure" =>
            \A i \in 1..Len(trace[d]) :
                IsConfigure(trace[d][i]) =>
                    /\ ChannelsOf(SubSeq(trace[d], 1, i - 1), FALSE) = <<0, 1>>
                    /\ \A j \in (i + 1)..Len(trace[d]) : ~IsDisable(trace[d][j])

\* C2: at most one stream handle per direction is live in every state, the
\* states inside reconfigure included.
C2_AtMostOneLiveHandle ==
    \A d \in D : Cardinality(LiveHandles(d)) <= 1

\* C3: a transfer that reaches the driver is preceded by a successful
\* set_sync_config of its direction with the handle's own sample format and
\* layout, and no other configuration has succeeded in between.
C3_TransferAfterMatchingConfigure ==
    \A d \in D :
        (op[d] = "transfer" /\ trace[d] # <<>>) =>
            /\ IsTransfer(trace[d][1])
            /\ trace[d][1].by = handle[d].id
            /\ lastCfg[d] # NoArg
            /\ lastCfg[d].fmt = handle[d].fmt
            /\ lastCfg[d].layout = handle[d].layout

C3_Witness ==
    \E d \in D :
        /\ Completed(d, "transfer")
        /\ result[d].ok
        /\ handle[d].id = 2
        /\ 1 \in released[d]

\* C4: the end of life of a stream (going out of scope, or being consumed by
\* reconfigure) issues set_enable_module(ch0, false) then
\* set_enable_module(ch1, false) whatever the layout, the variant and the
\* outcome of the first call, and no failure of these calls is returned.
C4_ReleaseDisablesBoth ==
    \A d \in D :
        /\ Completed(d, "release") =>
              /\ Len(trace[d]) = 2
              /\ ChannelsOf(trace[d], FALSE) = <<0, 1>>
              /\ result[d] = Ok
        /\ Completed(d, "reconfigure") =>
              /\ ChannelsOf(trace[d], FALSE) = <<0, 1>>
              /\ result[d].call # "set_enable_module"

C4_Witness ==
    \E d \in D :
        /\ Completed(d, "release")
        /\ trace[d][1].st # 0
        /\ trace[d][2].ch = 1
        /\ variant = "BladeRf1"

\* C5: on a MIMO layout, when enable's call for channel 0 succeeds and its
\* call for channel 1 fails, enable returns the error of the channel 1 call
\* and channel 0 stays enabled: no disable call is made.
C5_DualEnablePartialFailure ==
    \A d \in D :
        (/\ Completed(d, "enable")
         /\ handle[d].layout = MIMO
         /\ \E i \in 1..Len(trace[d]) :
                IsEnable(trace[d][i]) /\ trace[d][i].ch = 0 /\ trace[d][i].st = 0
         /\ \E j \in 1..Len(trace[d]) :
                IsEnable(trace[d][j]) /\ trace[d][j].ch = 1 /\ trace[d][j].st # 0)
        =>
            /\ ~result[d].ok
            /\ result[d].call = "set_enable_module"
            /\ result[d].ch = 1
            /\ result[d].code = trace[d][Len(trace[d])].st
            /\ hw_enabled[d][0]
            /\ ChannelsOf(trace[d], FALSE) = <<>>

C5_Witness ==
    \E d \in D :
        /\ Completed(d, "enable")
        /\ handle[d].layout = MIMO
        /\ Len(trace[d]) = 3
        /\ trace[d][2].st = 0
        /\ trace[d][3].st # 0
        /\ hw_enabled[d][0]
        /\ ~hw_enabled[d][1]

\* C6: enable first issues set_sync_config with the format, layout and
\* config the handle was built with; only after it succeeded does it issue
\* set_enable_module(ch, true), for the channels the layout names and in
\* their order.
C6_EnableReassertsStoredConfig ==
    \A d \in D :
        (op[d] = "enable" /\ trace[d] # <<>>) =>
            LET tr == trace[d]
                named == NamedChannels(BuiltArgs(d).layout)
            IN
            /\ IsConfigure(tr[1])
            /\ tr[1].arg = BuiltArgs(d)
            /\ \A i \in 2..Len(tr) : IsEnable(tr[i]) /\ tr[1].st = 0
            /\ IsPrefix(ChannelsOf(tr, TRUE), named)
            /\ (pc[d] = "idle" /\ result[d].ok) => ChannelsOf(tr, TRUE) = named

C6_Witness ==
    \E d \in D :
        /\ Completed(d, "enable")
        /\ result[d].ok
        /\ handle[d].layout = SISO(1)
        /\ handle[d].id = 2
        /\ hw_enabled[d][1]

\* C7: every driver call is issued on behalf of a handle whose
\* set_sync_config in new() has succeeded and whose release has not
\* completed; transfer, enable and disable calls are issued through the
\* handle the caller holds, which is not being released.  The one call not
\* covered is new()'s own set_sync_config, which creates the handle.
C7_CallsWithinLifetime ==
    [][\A d \in D :
          (trace'[d] # trace[d] /\ trace'[d] # <<>>) =>
              LET e == trace'[d][Len(trace'[d])] IN
              /\ e.by \notin released[d]
              /\ (op'[d] \in {"transfer", "enable", "disable"}) =>
                    /\ e.by \in BuiltIds(d)
                    /\ e.by = handle[d].id
                    /\ old[d] = NoHandle
              /\ IsDisable(e) => e.by \in BuiltIds(d)
              /\ (op'[d] \in {"configure", "reconfigure"} /\ IsConfigure(e)) =>
                    e.by \notin BuiltIds(d)
      ]_vars

C7_Witness ==
    \E d \in D :
        /\ Completed(d, "transfer")
        /\ handle[d].id = 2
        /\ released[d] = {1}
        /\ hw_enabled[d][0]

\* C8: when the driver rejects the set_sync_config made by new() on behalf
\* of the constructor, no handle exists, the caller gets an error with the
\* driver's status code, and no other driver call was made.
C8_ConfigureRejected ==
    \A d \in D :
        (op[d] = "configure" /\ trace[d][1].st # 0) =>
            /\ handle[d] = NoHandle
            /\ LiveHandles(d) = {}
            /\ ~result[d].ok
            /\ result[d].code = trace[d][1].st
            /\ Len(trace[d]) = 1

C8_Witness ==
    \E d \in D :
        /\ Completed(d, "configure")
        /\ trace[d][1].st = -4
        /\ result[d].code = -4
        /\ handle[d] = NoHandle

\* C9: when the driver rejects the new configuration, reconfigure returns an
\* error, the caller holds no handle, the old handle's disable calls for
\* both channels have been made, and no handle of the direction is live.
C9_ReconfigureConsumes ==
    \A d \in D :
        (Completed(d, "reconfigure") /\ ~result[d].ok) =>
            /\ handle[d] = NoHandle
            /\ LiveHandles(d) = {}
            /\ ChannelsOf(trace[d], FALSE) = <<0, 1>>
            /\ \A i \in 1..Len(trace[d]) :
                   IsDisable(trace[d][i]) => trace[d][i].by \in released[d]
            /\ result[d].call = "set_sync_config"

C9_Witness ==
    \E d \in D :
        /\ Completed(d, "reconfigure")
        /\ ~result[d].ok
        /\ d = "Tx"
        /\ mode = "shared"
        /\ released[d] = {1}

\* C10: no handle bound to the single-channel-only variant stores the MIMO
\* layout, and no set_sync_config for that variant carries it.
C10_NoDualOnSingleChannelVariant ==
    variant = "BladeRf1" =>
        \A d \in D :
            /\ \A h \in LiveHandles(d) : h.layout # MIMO
            /\ \A i \in 1..Len(trace[d]) : trace[d][i].arg.layout # MIMO

C10_Witness ==
    \E d \in D :
        /\ variant = "BladeRf1"
        /\ Completed(d, "reconfigure")
        /\ result[d].ok
        /\ handle[d].id = 2
        /\ handle[d].layout = SISO(0)

\* C11: disable addresses exactly the channels the stored layout names:
\* one set_enable_module(c, false) for SISO(c), channel 0 then channel 1 for
\* MIMO.  When the call for channel 0 succeeds and the call for channel 1
\* fails, disable returns that error, channel 0 is off and the failed call
\* has left channel 1 as it was.
C11_DisableNamedChannels ==
    /\ [](\A d \in D :
            op[d] = "disable" =>
                LET tr == trace[d]
                    named == NamedChannels(handle[d].layout)
                IN
                /\ \A i \in 1..Len(tr) : IsDisable(tr[i]) /\ tr[i].by = handle[d].id
                /\ IsPrefix(ChannelsOf(tr, FALSE), named)
                /\ (pc[d] = "idle" /\ result[d].ok) => ChannelsOf(tr, FALSE) = named
                /\ (pc[d] = "idle" /\ ~result[d].ok) =>
                       /\ tr[Len(tr)].st # 0
                       /\ result[d] = Err("set_enable_module", tr[Len(tr)].ch, tr[Len(tr)].st)
                       /\ \A i \in 1..(Len(tr) - 1) : tr[i].st = 0 /\ ~hw_enabled[d][tr[i].ch])
    /\ [][\A d \in D :
            (/\ op'[d] = "disable"
             /\ trace'[d] # trace[d]
             /\ trace'[d][Len(trace'[d])].st # 0)
            => hw_enabled'[d] = hw_enabled[d]
         ]_vars

C11_Witness ==
    \E d \in D :
        /\ Completed(d, "disable")
        /\ handle[d].layout = MIMO
        /\ Len(trace[d]) = 2
        /\ trace[d][1].st = 0
        /\ trace[d][2].st # 0
        /\ result[d].ch = 1
        /\ ~hw_enabled[d][0]
        /\ hw_enabled[d][1]

\* C12: when enable on a MIMO handle has failed on channel 1 after enabling
\* channel 0, a disable that follows on the same handle and whose driver
\* calls all succeed addresses both channels and leaves both of them off;
\* the caller still holds the handle.
C12_DisableAfterPartialEnable ==
    \A d \in D :
        (/\ story[d] = "partial_dis"
         /\ Completed(d, "disable")
         /\ \A i \in 1..Len(trace[d]) : trace[d][i].st = 0)
        =>
            /\ result[d] = Ok
            /\ ChannelsOf(trace[d], FALSE) = <<0, 1>>
            /\ ~hw_enabled[d][0]
            /\ ~hw_enabled[d][1]
            /\ handle[d] # NoHandle
            /\ handle[d].layout = MIMO

C12_Witness ==
    \E d \in D :
        /\ story[d] = "partial_dis"
        /\ Completed(d, "disable")
        /\ result[d].ok
        /\ Len(trace[d]) = 2
        /\ ~hw_enabled[d][0]
        /\ ~hw_enabled[d][1]

\* C13: a stream is configured, a transfer succeeds, disable succeeds, and
\* the caller transfers again with the same handle: this transfer reaches
\* the driver and returns the error of the transfer call.
C13_TransferAfterDisableFails ==
    \A d \in D :
        (story[d] = "xfer_dis_xfer" /\ Completed(d, "transfer")) =>
            /\ Len(trace[d]) = 1
            /\ IsTransfer(trace[d][1])
            /\ ~result[d].ok
            /\ result[d].call = "sync_transfer"
            /\ result[d].code = trace[d][1].st

C13_Witness ==
    /\ story["Rx"] = "xfer_dis_xfer"
    /\ Completed("Rx", "transfer")
    /\ ~result["Rx"].ok
    /\ handle["Rx"].id = 1
    /\ hw_sync["Rx"] = NoArg
    /\ ~hw_enabled["Rx"][0]

\* The u32 whose only set bit is bit i.
OnlyBit(i) == [j \in BitIndex |-> IF j = i THEN 1 ELSE 0]

IsConversion(g) == g.op \in {"into_input", "into_output"}

\* C14: in every reachable state each pin handle of type Input has its
\* direction-register bit (pin - 1) at 0 and each pin handle of type Output
\* has it at 1, whatever into_input, into_output, read and write calls were
\* made on the pins.
C14_TagMatchesDirectionBit ==
    \A p \in Pins :
        /\ tag[p] = "Input" => dir_reg[p - 1] = 0
        /\ tag[p] = "Output" => dir_reg[p - 1] = 1

C14_Witness ==
    /\ tag[5] = "Output"
    /\ tag[6] = "Input"
    /\ dir_reg[4] = 1
    /\ dir_reg[5] = 0
    /\ gop.op = "read"

\* C15: a successful write(level) on the Output handle of pin P sets bit
\* P - 1 of the GPIO value register to 1 for High and to 0 for Low; the
\* other 31 bits and the direction register keep their values.  With the
\* register at 0x00000000, write(High) on pin 5 leaves it at 0x00000010.
C15_WriteChangesOneBit ==
    [][(gop'.op = "write" /\ gop'.ok) =>
          LET P == gop'.pin IN
          /\ tag[P] = "Output"
          /\ gpio_reg'[P - 1] = (IF gop'.level = "High" THEN 1 ELSE 0)
          /\ \A i \in BitIndex \ {P - 1} : gpio_reg'[i] = gpio_reg[i]
          /\ dir_reg' = dir_reg
          /\ (P = 5 /\ gop'.level = "High" /\ gpio_reg = U32(0)) => gpio_reg' = U32(16)
      ]_vars

C15_Witness ==
    /\ gop.op = "write"
    /\ gop.ok
    /\ gop.pin = 5
    /\ gop.level = "High"
    /\ gpio_init = U32(0)
    /\ gpio_reg = U32(16)

\* C16: a successful into_input on pin P clears bit P - 1 of the direction
\* register and a successful into_output sets it, by exactly one
\* gpio_dir_masked_write; the other 31 direction bits and the GPIO value
\* register keep their values; the handle given up is replaced by one of
\* the same pin of type Input, respectively Output.
C16_ConversionWritesOneDirectionBit ==
    [][(IsConversion(gop') /\ gop'.ok) =>
          LET P == gop'.pin IN
          /\ tag[P] \in Tags
          /\ Len(gop'.calls) = 1
          /\ gop'.calls[1].call = "gpio_dir_masked_write"
          /\ dir_reg'[P - 1] = (IF gop'.op = "into_output" THEN 1 ELSE 0)
          /\ \A i \in BitIndex \ {P - 1} : dir_reg'[i] = dir_reg[i]
          /\ gpio_reg' = gpio_reg
          /\ tag'[P] = (IF gop'.op = "into_output" THEN "Output" ELSE "Input")
          /\ \A q \in Pins \ {P} : tag'[q] = tag[q]
          /\ gpins' = gpins
      ]_vars

C16_Witness ==
    /\ gop.op = "into_output"
    /\ gop.ok
    /\ gop.pin = 32
    /\ tag[32] = "Output"
    /\ dir_reg[31] = 1
    /\ dir_reg[0] = 0
    /\ dir_reg[30] = 0

\* C17 (as claimed): a handle becomes Input or Output only from Disabled;
\* a handle of type Input or Output has no transition to another type.
C17_OnlyFromUndirected ==
    [][\A p \in Pins :
          (tag'[p] # tag[p] /\ tag'[p] \in {"Input", "Output"}) => tag[p] = "Disabled"
      ]_vars

\* C17 (amended): into_input and into_output are offered on a handle of any
\* direction type.  The type of a pin's handle changes only by a conversion
\* of that pin: to Input by a successful into_input, to Output by a
\* successful into_output, and the handle is lost when the conversion
\* fails; no handle returns to Disabled.
C17_ConversionsFromAnyType ==
    [][\A p \in Pins :
          tag'[p] # tag[p] =>
              /\ tag[p] \in Tags
              /\ IsConversion(gop')
              /\ gop'.pin = p
              /\ tag'[p] = (IF ~gop'.ok THEN "Gone"
                            ELSE IF gop'.op = "into_input" THEN "Input" ELSE "Output")
      ]_vars

C17_Witness ==
    \E p \in Pins :
        /\ tag[p] = "Input"
        /\ gop.op = "into_input"
        /\ gop.pin = p
        /\ gop.ok
        /\ gpio_reg[p - 1] # gpio_init[p - 1]

\* C18: a successful read() on the Input handle of pin P returns High
\* exactly when bit P - 1 of the GPIO value register is 1, whatever the
\* other bits are, and changes neither register.  With the register at
\* 0x00000010, pin 5 reads High and pin 6 reads Low.
C18_ReadDecodesOwnBit ==
    [][gop'.op = "read" =>
          LET P == gop'.pin IN
          /\ tag[P] = "Input"
          /\ gpio_reg' = gpio_reg
          /\ dir_reg' = dir_reg
          /\ gop'.ok => (gop'.out = "High" <=> gpio_reg[P - 1] = 1)
          /\ gop'.ok => (gop'.out = "Low" <=> gpio_reg[P - 1] = 0)
          /\ (gop'.ok /\ gpio_reg = U32(16) /\ P = 5) => gop'.out = "High"
          /\ (gop'.ok /\ gpio_reg = U32(16) /\ P = 6) => gop'.out = "Low"
      ]_vars

C18_Witness ==
    /\ gop.op = "read"
    /\ gop.ok
    /\ gop.pin = 6
    /\ gop.out = "Low"
    /\ gpio_reg = U32(16)
    /\ tag[5] = "Input"

\* C19: after a successful write(L) on pin P, pinstate_from_reg(P, reg)
\* decodes L from the register, and for every other pin Q it decodes what
\* it decoded before the write.
C19_WriteThenDecode ==
    [][(gop'.op = "write" /\ gop'.ok) =>
          LET P == gop'.pin IN
          /\ pinstate_from_reg(P, gpio_reg') = (gop'.level = "High")
          /\ \A Q \in Pins \ {P} :
                 pinstate_from_reg(Q, gpio_reg') = pinstate_from_reg(Q, gpio_reg)
      ]_vars

C19_Witness ==
    /\ gop.op = "write"
    /\ gop.ok
    /\ gop.pin = 32
    /\ gop.level = "Low"
    /\ gpio_init = U32Max
    /\ ~pinstate_from_reg(32, gpio_reg)
    /\ pinstate_from_reg(31, gpio_reg)
    /\ pinstate_from_reg(1, gpio_reg)

\* pin_to_bitmask over all pin numbers.
MasksAreOneBit ==
    \A p \in Pins :
        /\ pin_to_bitmask(p) = OnlyBit(p - 1)
        /\ pin_to_bitmask(p) # Zero32
        /\ \A q \in Pins \ {p} :
               BitAnd(pin_to_bitmask(p), pin_to_bitmask(q)) = Zero32

\* C20: for every pin P of 1..32, pin_to_bitmask(P) is the 32-bit value
\* with exactly bit P - 1 set: it is not zero (P = 32 included) and shares
\* no bit with the mask of another pin.  The masks the pin operations hand
\* to the driver are these.
C20_MaskIsOneBit ==
    /\ MasksAreOneBit
    /\ (gop.op \in {"into_input", "into_output", "write"}) =>
           gop.calls[1].mask = OnlyBit(gop.pin - 1)

C20_Witness ==
    /\ gop.op = "write"
    /\ gop.pin = 32
    /\ gop.calls[1].mask[31] = 1
    /\ gop.calls[1].mask[0] = 0
    /\ 1 \in gpins

\* Bit the last successful operation through pin p's handle left in a
\* register: `was` when there was none.
LevelBit(l, was) == IF l = "High" THEN 1 ELSE IF l = "Low" THEN 0 ELSE was
DirectionBit(d, was) == IF d = "out" THEN 1 ELSE IF d = "in" THEN 0 ELSE was

\* C21: whatever the order in which the operations on two different pins
\* are interleaved, bit P - 1 of the GPIO value register holds the level
\* last written through P's handle and bit P - 1 of the direction register
\* the direction last set through it, for each of the pins, and every
\* other bit of both registers holds what it held when the pins were
\* created.
C21_PinsDoNotInterfere ==
    \A p \in Pins :
        /\ gpio_reg[p - 1] = LevelBit(lastw[p], gpio_init[p - 1])
        /\ dir_reg[p - 1] = DirectionBit(lastd[p], dir_init[p - 1])

C21_Witness ==
    /\ lastw[5] = "High"
    /\ lastw[6] = "Low"
    /\ gpio_init = U32Max
    /\ gop.op = "write"
    /\ gop.pin = 5
    /\ gop.ok
    /\ gpio_reg[4] = 1
    /\ gpio_reg[5] = 0
    /\ gpio_reg[6] = 1

\* The other direction.
Other(d) == IF d = "Rx" THEN "Tx" ELSE "Rx"

\* What the thread of direction d owns: a step of that thread changes it.
ThreadState(d) == <<pc[d], op[d], trace[d], result[d], handle[d], old[d], ret[d]>>

\* C22: every driver call of an operation on the inbound handle names the
\* receive direction and every call of an operation on the outbound handle
\* the transmit direction; with both handles live and their operations
\* interleaved, a step of one direction's operation changes neither the
\* enabled state of the other direction's channels nor its stream
\* configuration.
C22_DirectionsIndependent ==
    /\ [](\A d \in D : \A i \in 1..Len(trace[d]) : trace[d][i].dir = d)
    /\ [][\A d \in D :
            ThreadState(d)' # ThreadState(d) =>
                /\ hw_enabled'[Other(d)] = hw_enabled[Other(d)]
                /\ hw_sync'[Other(d)] = hw_sync[Other(d)]
         ]_vars

C22_Witness ==
    /\ handle["Rx"] # NoHandle
    /\ handle["Tx"] # NoHandle
    /\ Completed("Tx", "reconfigure")
    /\ handle["Tx"].id = 2
    /\ ~hw_enabled["Tx"][0]
    /\ ~hw_enabled["Tx"][1]
    /\ op["Rx"] = "enable"
    /\ hw_enabled["Rx"][0]
    /\ hw_enabled["Rx"][1]
    /\ hw_sync["Rx"] # NoArg

\* C23: when reconfigure returns a new handle after driver calls that all
\* succeeded, both channels of the direction are off and the driver holds
\* the stream configuration the new handle was built with: no disable call
\* made after new()'s set_sync_config has voided it.
C23_ReconfigureLeavesNewConfig ==
    \A d \in D :
        (/\ Completed(d, "reconfigure")
         /\ result[d].ok
         /\ \A i \in 1..Len(trace[d]) : trace[d][i].st = 0)
        =>
            /\ handle[d] # NoHandle
            /\ ~hw_enabled[d][0]
            /\ ~hw_enabled[d][1]
            /\ hw_sync[d] = ArgsOf(handle[d])
            /\ \A i \in 1..Len(trace[d]) :
                   IsConfigure(trace[d][i]) =>
                       \A j \in (i + 1)..Len(trace[d]) : ~IsDisable(trace[d][j])

\* The channel B of SISO(B) is on and the other channel is off.
OnlyChannelOn(d, layout) ==
    /\ layout # MIMO
    /\ hw_enabled[d][layout[2]]
    /\ ~hw_enabled[d][1 - layout[2]]

\* C24 (as claimed): after a reconfigure from SISO(A) to SISO(B), A # B,
\* followed by a successful enable, channel B is on and channel A is off,
\* also when channel A was on before the reconfigure.
C24_SwapThenEnable ==
    \A d \in D :
        (/\ story[d] \in {"swapOnCleanEn", "swapOnDirtyEn", "swapOffEn"}
         /\ Completed(d, "enable"))
        => OnlyChannelOn(d, handle[d].layout)

\* C24 (amended): the same, provided channel A was off before the
\* reconfigure or the disable call that the release of the old handle made
\* for channel A succeeded; release discards the result of that call, and
\* when it failed channel A stays on.
C24_SwapThenEnableAfterCleanRelease ==
    \A d \in D :
        /\ (/\ story[d] \in {"swapOnCleanEn", "swapOffEn"}
            /\ Completed(d, "enable"))
           =>
               /\ result[d] = Ok
               /\ OnlyChannelOn(d, handle[d].layout)
               /\ ChannelsOf(trace[d], TRUE) = <<handle[d].layout[2]>>
        /\ (story[d] = "swapOnDirtyEn" /\ Completed(d, "enable"))
           => /\ hw_enabled[d][0]
              /\ hw_enabled[d][1]

C24_Witness ==
    \E d \in D :
        /\ story[d] = "swapOnCleanEn"
        /\ Completed(d, "enable")
        /\ variant = "BladeRf2"
        /\ handle[d].id = 2
        /\ handle[d].layout = SISO(1)
        /\ hw_enabled[d][1]
        /\ ~hw_enabled[d][0]

\* C25: on BladeRf1 no operation issues an enable call for channel 1:
\* enable and disable address channel 0 only, whatever layout the handle
\* stores; reconfigure installs SISO(channel 0); channel 1 is addressed
\* only by the disable calls of Drop (release, or the release of the old
\* handle inside reconfigure).
C25_SingleChannelVariantUsesChannel0 ==
    /\ \A l \in Layouts :
           /\ EnableChannels("BladeRf1", l) = <<0>>
           /\ DisableChannels("BladeRf1", l) = <<0>>
           /\ ReconfigureLayout("BladeRf1", l) = SISO(0)
    /\ variant = "BladeRf1" =>
           \A d \in D :
               /\ \A i \in 1..Len(trace[d]) :
                      LET e == trace[d][i] IN
                      /\ IsEnable(e) => e.ch = 0
                      /\ (e.call = "set_enable_module" /\ e.ch = 1) =>
                             /\ ~e.on
                             /\ op[d] \in {"release", "reconfigure"}
                             /\ e.by \notin {h.id : h \in {handle[d], ret[d]}}
               /\ (op[d] = "reconfigure" /\ args[d] # NoArg) => args[d].layout = SISO(0)
               /\ (Completed(d, "reconfigure") /\ result[d].ok) => handle[d].layout = SISO(0)

C25_Witness ==
    \E d \in D :
        /\ variant = "BladeRf1"
        /\ Completed(d, "enable")
        /\ result[d].ok
        /\ handle[d].id = 2
        /\ Len(trace[d]) = 2
        /\ hw_enabled[d][0]
        /\ ~hw_enabled[d][1]

\* The first call of a disable on a dual-channel layout was rejected.
DisableFailedAtFirst(d) ==
    /\ op[d] = "disable"
    /\ handle[d] # NoHandle
    /\ handle[d].layout = MIMO
    /\ variant # "BladeRf1"
    /\ Len(trace[d]) >= 1
    /\ trace[d][1].st # 0

\* C26: explicit disable on a dual-channel layout stops at the first failing
\* channel: when its call for channel 0 fails, disable returns that error
\* without a call for channel 1, and the enabled state of the channels is
\* what it was before; release makes both calls whatever their outcome.
C26_DisableStopsAtFirstFailure ==
    /\ [](\A d \in D :
            /\ DisableFailedAtFirst(d) =>
                   /\ pc[d] = "idle"
                   /\ Len(trace[d]) = 1
                   /\ trace[d][1].ch = 0
                   /\ result[d] = Err("set_enable_module", 0, trace[d][1].st)
            /\ (Completed(d, "release") /\ trace[d][1].st # 0) =>
                   /\ Len(trace[d]) = 2
                   /\ IsDisable(trace[d][2])
                   /\ trace[d][2].ch = 1)
    /\ [][\A d \in D :
            (pc[d] = "idle" /\ DisableFailedAtFirst(d)') =>
                hw_enabled'[d] = hw_enabled[d]]_vars

C26_Witness ==
    \E d \in D :
        /\ DisableFailedAtFirst(d)
        /\ pc[d] = "idle"
        /\ hw_enabled[d][0]
        /\ hw_enabled[d][1]

\* The set_sync_config call of an enable was rejected.
EnableConfigureRejected(d) ==
    /\ op[d] = "enable"
    /\ Len(trace[d]) >= 1
    /\ IsConfigure(trace[d][1])
    /\ trace[d][1].st # 0

\* C27: when the set_sync_config step of enable is rejected, enable returns
\* that error without any set_enable_module call; the enabled state of every
\* channel, and the configuration and layout the handle stores, are what
\* they were before the call.
C27_EnableConfigureFailure ==
    /\ [](\A d \in D :
            EnableConfigureRejected(d) =>
                /\ pc[d] = "idle"
                /\ Len(trace[d]) = 1
                /\ result[d] = Err("set_sync_config", -1, trace[d][1].st))
    /\ [][\A d \in D :
            (pc[d] = "idle" /\ EnableConfigureRejected(d)') =>
                /\ hw_enabled'[d] = hw_enabled[d]
                /\ handle'[d] = handle[d]
                /\ handle[d] # NoHandle]_vars

C27_Witness ==
    \E d \in D :
        /\ EnableConfigureRejected(d)
        /\ pc[d] = "idle"
        /\ handle[d].layout = MIMO
        /\ hw_enabled[d][0]
        /\ ~hw_enabled[d][1]

B2N(b) == IF b THEN 1 ELSE 0

\* The device references held on behalf of direction d: by the caller's
\* handle, the handle being torn down, the handle new() has built, and the
\* clone reconfigure_inner holds until new() has consumed it.
Holders(d) ==
    B2N(handle[d] # NoHandle) + B2N(old[d] # NoHandle) + B2N(ret[d] # NoHandle)
    + B2N(pc[d] = "rc_new" \/ (op[d] = "reconfigure" /\ DropsBeforeNew(d)
                                /\ pc[d] \in {"drop0", "drop1"}))

AllHolders == B2N(appArc) + B2N("Rx" \in dirs) * Holders("Rx") + B2N("Tx" \in dirs) * Holders("Tx")

\* The reference count is the number of holders; a direction at rest holds
\* one reference per handle, so a successful reconfigure leaves as many as
\* there were; a live handle and a teardown call find the device open.
HoldersAccounted ==
    mode = "shared" =>
        /\ strong = AllHolders
        /\ \A d \in dirs :
               /\ LiveHandles(d) # {} => strong >= 1
               /\ pc[d] \in {"drop0", "drop1"} => (old[d] # NoHandle /\ strong >= 1)
               /\ pc[d] = "idle" => Holders(d) = B2N(handle[d] # NoHandle)
               /\ (Completed(d, "reconfigure") /\ result[d].ok) => Holders(d) = 1

\* C28 (as claimed): in shared mode the number of holders of the device
\* never reaches zero during reconfigure, the teardown calls of the old
\* handle are made on an open device, and a successful reconfigure leaves
\* as many holders as there were.
C28_DeviceAliveDuringReconfigure ==
    /\ HoldersAccounted
    /\ mode = "shared" =>
           \A d \in dirs : (op[d] = "reconfigure" /\ pc[d] # "idle") => strong >= 1

\* C28 (amended): the number of holders stays above zero in reconfigure as
\* long as the old handle is not torn down, new() has not returned or new()
\* has succeeded; it is zero inside reconfigure exactly when new() has
\* failed, the old handle is torn down and nobody else holds the device:
\* neither the application nor a stream of the other direction.
C28_DeviceAliveUnlessNewFails ==
    /\ HoldersAccounted
    /\ mode = "shared" =>
           \A d \in dirs :
               (op[d] = "reconfigure" /\ pc[d] # "idle") =>
                   /\ (pc[d] \in {"drop0", "drop1", "rc_new"} \/ result[d].ok) => strong >= 1
                   /\ strong = 0 <=> (/\ pc[d] = "rc_ret"
                                      /\ ~result[d].ok
                                      /\ result[d].call = "set_sync_config"
                                      /\ ~appArc
                                      /\ Other(d) \in dirs => Holders(Other(d)) = 0)
                   /\ (pc[d] = "rc_ret" /\ ~result[d].ok) =>
                          strong = B2N(appArc) + B2N(Other(d) \in dirs) * Holders(Other(d))

\* A reconfigure has failed while the other direction's stream and nobody
\* else holds the device: the count is 1, not 0.
C28_Witness ==
    \E d \in D :
        /\ mode = "shared"
        /\ dirs = D
        /\ ~appArc
        /\ op[d] = "reconfigure"
        /\ pc[d] = "rc_ret"
        /\ ~result[d].ok
        /\ handle[Other(d)] # NoHandle
        /\ strong = 1

\* C29: when the masked write of the direction register made by into_input
\* or into_output is rejected, the conversion returns the error, no Input or
\* Output handle exists for the pin afterwards (the handle it was called on
\* is consumed), and the direction and value registers are unchanged.
C29_FailedConversion ==
    /\ []((IsConversion(gop) /\ gop.calls[1].st # 0) =>
             /\ ~gop.ok
             /\ Len(gop.calls) = 1
             /\ tag[gop.pin] = "Gone")
    /\ [][\A p \in Pins :
            (/\ tag[p] \in Tags
             /\ IsConversion(gop')
             /\ gop'.pin = p
             /\ gop'.calls[1].st # 0) =>
                /\ tag'[p] = "Gone"
                /\ dir_reg' = dir_reg
                /\ gpio_reg' = gpio_reg]_vars

C29_Witness ==
    /\ gop.op = "into_output"
    /\ gop.calls[1].st # 0
    /\ tag[gop.pin] = "Gone"
    /\ \E q \in gpins : tag[q] = "Output" /\ lastw[q] # "none"

\* C30: transfer hands the driver a sample count equal to the length of the
\* caller's buffer and a timeout equal to the caller's timeout in whole
\* milliseconds, for every buffer length and every timeout, those at or
\* above 2^32 included.
C30_TransferPassesLengthAndTimeout ==
    \A d \in D :
        (op[d] = "transfer" /\ Len(trace[d]) = 1) =>
            LET e == trace[d][1] IN
            /\ Len(e.count) = 2
            /\ Len(e.timeout_ms) = 2
            /\ SameNumber(e.count, e.buf_len)
            /\ SameNumber(e.timeout_ms, as_millis(e.timeout))

====
